---- MODULE Spec2Model ----
(***************************************************************************)
(* Session, credential and quota state machine of the Streamlit chat       *)
(* front-end (src/src).  The program keeps all of its state in              *)
(* st.session_state, a dictionary whose keys may be absent; it is modelled  *)
(* as a function whose DOMAIN is the set of keys present.  Every widget     *)
(* event re-executes the page script (main.py ChatApplication.run); one     *)
(* action of the model is one script run, except that a chat submission is  *)
(* split at the blocking HTTP call into the part before the request is      *)
(* sent (Submit) and the part after the answer arrives (Response).          *)
(* Time is counted in hours.                                                *)
(***************************************************************************)
EXTENDS Integers, Sequences, FiniteSets, TLC

\* ---------------------------------------------------------------- bounds
\* The rate limits are settings (utils/config.py, defaults 10 and 50, which
\* chat_interface.py also hardcodes); they are scaled down here.
MaxTime == 2        \* the clock runs over 0..MaxTime
MaxMsgs == 1        \* no submission once the active session holds this many messages
MaxConc == 2        \* script runs that may overlap under SpecConc
TokenLifetime == 2  \* ExpiresIn the Identity Service declares, in hours
RefreshMargin == 1  \* safety margin of spec 4.1 (the code defines none)

ANONYMOUS_RATE_LIMIT == 2
AUTHENTICATED_RATE_LIMIT == 3

\* Settings.RATE_LIMIT_WINDOW_HOURS (utils/config.py)
RATE_LIMIT_WINDOW_HOURS == 1

Users == {"alice", "bob"}

\* Texts are sequences of characters.  validate_message hardcodes a maximum
\* of 2000 characters, scaled down here.
MAX_MESSAGE_LENGTH == 32
Hi == <<"h", "i">>
Reply == <<"o", "k">>
TooLong == SubSeq([i \in 1..(MAX_MESSAGE_LENGTH + 1) |-> "a"], 1, MAX_MESSAGE_LENGTH + 1)
\* The texts validate_message and sanitize_html are applied to: every text of
\* at most MaxTextLen characters of TextAlphabet, and some longer ones.
MaxTextLen == 3
\* calls of reset_session in one behaviour
MaxResets == 1
TextAlphabet == {" ", "a", "<", ">"}
ScriptHello ==
    <<"<", "s", "c", "r", "i", "p", "t", ">", "a", "l", "e", "r", "t", "(", "1", ")", "<",
      "/", "s", "c", "r", "i", "p", "t", ">", "h", "e", "l", "l", "o">>
SpecialTexts ==
    {ScriptHello, TooLong, <<" ", " ", " ", " ">>,
     <<" ", "h", "i", " ">>,
     <<"D", "A", "T", "A", ":", "x">>,
     <<"<", "b", ">", "a", "<", "/", "b", ">">>,
     <<"<", "a", " ", "h", "r", "e", "f", "=", "\"", "x", "\"", ">", "a", "<", "/", "a", ">">>,
     <<"a", "<", "b", "r", ">", "b", " ", "<", "/", "p", " ", ">">>}
RECURSIVE TextsUpTo(_)
TextsUpTo(n) ==
    IF n = 0 THEN {<<>>}
    ELSE LET shorter == TextsUpTo(n - 1)
         IN  shorter \cup {Append(text, c) : text \in shorter, c \in TextAlphabet}
ValidateInputs == TextsUpTo(MaxTextLen) \cup SpecialTexts

\* What st.chat_input may hand to the script: any non-empty text (the widget
\* is given no max_chars).
Prompts == {Hi, TooLong}
Statuses == {"200", "401", "429", "500", "timeout"}
LoginOutcomes == {"ok", "NotAuthorizedException", "UserNotConfirmedException", "Other"}
RefreshAnswers == {"ok", "error"}
Messages == {[role |-> "user", content |-> Hi],
             [role |-> "assistant", content |-> Reply]}

VARIABLES
    session_state,  \* st.session_state: key -> value, keys may be absent
    now,            \* datetime.utcnow(), in hours
    inflight,       \* requests sent to the Chat API and not answered yet
    rerun,          \* st.experimental_rerun() was called and the rerun has not run yet
    uuid_count,     \* number of uuid.uuid4() values drawn so far
    last,           \* what the last operation showed or returned (observation)
    win             \* accounting of the current quota window (observation)

vars == <<session_state, now, inflight, rerun, uuid_count, last, win>>

\* ------------------------------------------------- dictionary primitives
Has(s, k) == k \in DOMAIN s
Get(s, k, d) == IF k \in DOMAIN s THEN s[k] ELSE d
Put(s, k, v) == (k :> v) @@ s
Del(s, k) == [x \in (DOMAIN s) \ {k} |-> s[x]]
EmptyDict == [x \in {} |-> 0]

\* Optional values: <<>> is None, <<v>> is v.
None == <<>>
Some(v) == <<v>>

Min(a, b) == IF a < b THEN a ELSE b
Max(a, b) == IF a > b THEN a ELSE b
RemoveAt(q, i) == [j \in 1..(Len(q) - 1) |-> IF j < i THEN q[j] ELSE q[j + 1]]

\* ------------------------------------------------------ utils/session.py
\* Mutant: the defaults are written on every call.
initialize_session_state_always(s, id, t) ==
    Put(Put(Put(Put(Put(Put(s, "initialized", TRUE), "session_id", id),
                    "messages", <<>>), "questions_used", 0),
            "last_reset_time", t), "guest_mode", TRUE)

\* initialize_session_state: the defaults are written once.
initialize_session_state(s, id, t) ==
    IF Has(s, "initialized") THEN s
    ELSE Put(Put(Put(Put(Put(Put(s,
            "initialized", TRUE),
            "session_id", id),
            "messages", <<>>),
            "questions_used", 0),
            "last_reset_time", t),
            "guest_mode", TRUE)

\* Mutant: a new id is returned on every call and not stored.
get_session_id_fresh(s, id) == [ss |-> s, value |-> id]

\* get_session_id: returns the stored id, storing a new one when absent.
get_session_id(s, id) ==
    IF ~Has(s, "session_id") THEN [ss |-> Put(s, "session_id", id), value |-> id]
    ELSE [ss |-> s, value |-> s["session_id"]]

\* utils/session.py reset_session: empties the messages, draws a new id and
\* zeroes the counter; rate_limit_start is not touched.
reset_session(s, id, t) ==
    Put(Put(Put(Put(s, "messages", <<>>), "session_id", id),
            "questions_used", 0), "last_reset_time", t)

\* utils/session.py get_chat_history: creates the key, returns the list.
get_chat_history(s) ==
    IF ~Has(s, "chat_history") THEN Put(s, "chat_history", <<>>) ELSE s

\* Mutant: the message is inserted at the front of the list.
add_message_to_history_prepend(s, message) ==
    LET s1 == IF ~Has(s, "messages") THEN Put(s, "messages", <<>>) ELSE s
    IN  Put(s1, "messages", <<message>> \o s1["messages"])

add_message_to_history(s, message) ==
    LET s1 == IF ~Has(s, "messages") THEN Put(s, "messages", <<>>) ELSE s
    IN  Put(s1, "messages", Append(s1["messages"], message))

\* st.session_state.get("guest_mode") is None when absent, and `not None` is True.
is_rate_limited(s) ==
    LET questions_used == Get(s, "questions_used", 0)
        limit == IF ~Get(s, "guest_mode", FALSE) THEN AUTHENTICATED_RATE_LIMIT
                 ELSE ANONYMOUS_RATE_LIMIT
    IN  questions_used >= limit

get_remaining_questions(s) ==
    LET questions_used == Get(s, "questions_used", 0)
        limit == IF ~Get(s, "guest_mode", FALSE) THEN AUTHENTICATED_RATE_LIMIT
                 ELSE ANONYMOUS_RATE_LIMIT
    IN  Max(0, limit - questions_used)

\* ------------------------------------------------------- utils/logger.py
\* Python string operations on texts.
Whitespace == {" ", "\t", "\n", "\r", "\f"}
SetMin(S) == CHOOSE x \in S : \A y \in S : x <= y
SetMax(S) == CHOOSE x \in S : \A y \in S : x >= y

\* str.strip: the text from its first to its last non-whitespace character.
strip(text) ==
    LET kept == {i \in 1..Len(text) : text[i] \notin Whitespace}
    IN  IF kept = {} THEN <<>> ELSE SubSeq(text, SetMin(kept), SetMax(kept))

\* str.replace of one character by a text: character i of the text goes to
\* position At(i) of the result, as itself or as the replacement.
replace(text, old, new) ==
    LET Before(i) == Cardinality({j \in 1..(i - 1) : text[j] = old})
        At(i) == i + (Len(new) - 1) * Before(i)
        Width(i) == IF text[i] = old THEN Len(new) ELSE 1
        Source(k) == CHOOSE i \in 1..Len(text) : At(i) <= k /\ k < At(i) + Width(i)
        result == [k \in 1..(At(Len(text) + 1) - 1) |->
                      IF text[Source(k)] = old THEN new[k - At(Source(k)) + 1]
                      ELSE text[Source(k)]]
    IN  SubSeq(result, 1, At(Len(text) + 1) - 1)

UpperCase == <<"A", "B", "C", "D", "E", "F", "G", "H", "I", "J", "K", "L", "M", "N", "O", "P", "Q", "R", "S", "T", "U", "V", "W", "X", "Y", "Z">>
LowerCase == <<"a", "b", "c", "d", "e", "f", "g", "h", "i", "j", "k", "l", "m", "n", "o", "p", "q", "r", "s", "t", "u", "v", "w", "x", "y", "z">>
lower(text) ==
    SubSeq([i \in 1..Len(text) |->
              IF \E j \in 1..Len(UpperCase) : UpperCase[j] = text[i]
              THEN LowerCase[CHOOSE j \in 1..Len(UpperCase) : UpperCase[j] = text[i]]
              ELSE text[i]], 1, Len(text))

\* `pattern in text`, and re.search of a literal pattern.
Contains(text, pattern) ==
    \E i \in 1..(Len(text) - Len(pattern) + 1) :
        SubSeq(text, i, i + Len(pattern) - 1) = pattern

dangerous_patterns ==
    {<<"j", "a", "v", "a", "s", "c", "r", "i", "p", "t", ":">>,
     <<"d", "a", "t", "a", ":">>,
     <<"v", "b", "s", "c", "r", "i", "p", "t", ":">>,
     <<"o", "n", "l", "o", "a", "d", "=">>,
     <<"o", "n", "e", "r", "r", "o", "r", "=">>,
     <<"o", "n", "c", "l", "i", "c", "k", "=">>,
     <<"e", "v", "a", "l", "(">>}

\* Mutant: the text is not stripped before the tests.
validate_message_no_strip(message) ==
    IF message = <<>>
    THEN [raised |-> "ValidationError", value |-> <<>>]
    ELSE IF Len(message) > MAX_MESSAGE_LENGTH
    THEN [raised |-> "ValidationError", value |-> <<>>]
    ELSE LET escaped == replace(replace(message, "<", <<"&", "l", "t", ";">>), ">", <<"&", "g", "t", ";">>)
         IN  IF \E pattern \in dangerous_patterns : Contains(lower(escaped), pattern)
             THEN [raised |-> "ValidationError", value |-> <<>>]
             ELSE [raised |-> "none", value |-> escaped]

\* validate_message: the ValidationError raised, or the text returned.
\* re.search with re.IGNORECASE of a lower-case literal is a search in the
\* lower-cased text.
validate_message(message) ==
    LET stripped == strip(message)
    IN  IF stripped = <<>>
        THEN [raised |-> "ValidationError", value |-> <<>>]
        ELSE IF Len(stripped) > MAX_MESSAGE_LENGTH
        THEN [raised |-> "ValidationError", value |-> <<>>]
        ELSE LET escaped == replace(replace(stripped, "<", <<"&", "l", "t", ";">>), ">", <<"&", "g", "t", ";">>)
             IN  IF \E pattern \in dangerous_patterns :
                        Contains(lower(escaped), pattern)
                 THEN [raised |-> "ValidationError", value |-> <<>>]
                 ELSE [raised |-> "none", value |-> escaped]

\* sanitize_html.
Digits == {"0", "1", "2", "3", "4", "5", "6", "7", "8", "9"}
WordChars ==
    {UpperCase[i] : i \in 1..Len(UpperCase)} \cup {LowerCase[i] : i \in 1..Len(LowerCase)}
        \cup Digits \cup {"_"}

\* re.sub(open + ".*?" + close, "", text): leftmost matches, each ending at the
\* first close after its open; ignorecase applies to open, and without
\* dotall the characters in between exclude the newline.
SpanEnds(text, i, open, close, ignorecase, dotall) ==
    IF i + Len(open) - 1 <= Len(text)
       /\ (IF ignorecase THEN lower(SubSeq(text, i, i + Len(open) - 1))
           ELSE SubSeq(text, i, i + Len(open) - 1)) = open
    THEN {j \in (i + Len(open))..(Len(text) - Len(close) + 1) :
            /\ SubSeq(text, j, j + Len(close) - 1) = close
            /\ dotall \/ \A k \in (i + Len(open))..(j - 1) : text[k] # "\n"}
    ELSE {}
RECURSIVE re_sub_span(_, _, _, _, _)
re_sub_span(text, open, close, ignorecase, dotall) ==
    LET starts == {i \in 1..Len(text) :
                      SpanEnds(text, i, open, close, ignorecase, dotall) # {}}
    IN  IF starts = {} THEN text
        ELSE LET i == SetMin(starts)
                 j == SetMin(SpanEnds(text, i, open, close, ignorecase, dotall))
             IN  SubSeq(text, 1, i - 1)
                 \o re_sub_span(SubSeq(text, j + Len(close), Len(text)),
                                open, close, ignorecase, dotall)

allowed_tags ==
    {<<"b">>, <<"i">>, <<"u">>, <<"p">>,
     <<"b", "r">>, <<"u", "l">>, <<"o", "l">>, <<"l", "i">>,
     <<"h", "1">>, <<"h", "2">>, <<"h", "3">>, <<"h", "4">>,
     <<"h", "5">>, <<"h", "6">>, <<"s", "p", "a", "n">>, <<"d", "i", "v">>,
     <<"e", "m">>, <<"s", "t", "r", "o", "n", "g">>, <<"c", "o", "d", "e">>, <<"p", "r", "e">>,
     <<"b", "l", "o", "c", "k", "q", "u", "o", "t", "e">>}

\* A match of <(/?)(\w+)(?: .*?)?> starting at i: its first group and the
\* position of its last character, or no match (last = 0).
WordEnd(text, k) ==
    SetMin({e \in k..(Len(text) + 1) : e = Len(text) + 1 \/ text[e] \notin WordChars})
TagMatch(text, i) ==
    LET slash == i + 1 <= Len(text) /\ text[i + 1] = "/"
        k == IF slash THEN i + 2 ELSE i + 1
        e == WordEnd(text, k)
        closes == {g \in (e + 1)..Len(text) :
                     /\ text[g] = ">"
                     /\ \A x \in (e + 1)..(g - 1) : text[x] # "\n"}
        group1 == IF slash THEN <<"/">> ELSE <<>>
    IN  IF text[i] # "<" \/ e = k \/ e > Len(text) THEN [group1 |-> group1, last |-> 0]
        ELSE IF text[e] = ">" THEN [group1 |-> group1, last |-> e]
        ELSE IF text[e] = " " /\ closes # {} THEN [group1 |-> group1, last |-> SetMin(closes)]
        ELSE [group1 |-> group1, last |-> 0]

\* replace_tag looks the first group up in allowed_tags (the tag name is the
\* second group).
replace_tag(text, i, m) ==
    IF lower(m.group1) \in allowed_tags THEN SubSeq(text, i, m.last) ELSE <<>>
\* re.sub of the tag pattern from position `from` on: leftmost matches.
RECURSIVE re_sub_tags(_, _)
re_sub_tags(text, from) ==
    LET starts == {i \in from..Len(text) : TagMatch(text, i).last # 0}
    IN  IF starts = {} THEN SubSeq(text, from, Len(text))
        ELSE LET i == SetMin(starts)
                 m == TagMatch(text, i)
             IN  SubSeq(text, from, i - 1) \o replace_tag(text, i, m)
                 \o re_sub_tags(text, m.last + 1)

dangerous_tags == <<<<"s", "c", "r", "i", "p", "t">>, <<"s", "t", "y", "l", "e">>, <<"i", "f", "r", "a", "m", "e">>, <<"o", "b", "j", "e", "c", "t">>, <<"e", "m", "b", "e", "d">>>>
dangerous_attributes ==
    <<<<"o", "n", "c", "l", "i", "c", "k">>,
      <<"o", "n", "d", "b", "l", "c", "l", "i", "c", "k">>,
      <<"o", "n", "m", "o", "u", "s", "e", "d", "o", "w", "n">>,
      <<"o", "n", "m", "o", "u", "s", "e", "o", "v", "e", "r">>,
      <<"o", "n", "m", "o", "u", "s", "e", "o", "u", "t">>,
      <<"o", "n", "k", "e", "y", "d", "o", "w", "n">>,
      <<"o", "n", "k", "e", "y", "p", "r", "e", "s", "s">>,
      <<"o", "n", "k", "e", "y", "u", "p">>,
      <<"o", "n", "l", "o", "a", "d">>,
      <<"o", "n", "e", "r", "r", "o", "r">>,
      <<"o", "n", "s", "u", "b", "m", "i", "t">>,
      <<"s", "t", "y", "l", "e">>,
      <<"h", "r", "e", "f">>,
      <<"s", "r", "c">>>>

\* The five re.sub calls that drop script, style, iframe, object and embed
\* elements, in order from the n-th on; a pattern that occurs nowhere in the
\* text leaves it as it is and is passed over.
RECURSIVE remove_tags(_, _)
remove_tags(text, n) ==
    LET found == {k \in n..Len(dangerous_tags) :
                     Contains(text, <<"<">> \o dangerous_tags[k])}
    IN  IF found = {} THEN text
        ELSE LET k == SetMin(found)
             IN  remove_tags(re_sub_span(text, <<"<">> \o dangerous_tags[k],
                                         <<"<", "/">> \o dangerous_tags[k] \o <<">">>,
                                         FALSE, TRUE), k + 1)
\* The loop over dangerous_attributes from the n-th on: attr="..." and then
\* attr='...' are dropped; an attribute that occurs nowhere is passed over.
RECURSIVE remove_attributes(_, _)
remove_attributes(text, n) ==
    LET found == {k \in n..Len(dangerous_attributes) :
                     Contains(lower(text), dangerous_attributes[k] \o <<"=">>)}
    IN  IF found = {} THEN text
        ELSE LET k == SetMin(found)
                 open == dangerous_attributes[k] \o <<"=">>
                 t1 == re_sub_span(text, open \o <<"\"">>, <<"\"">>, TRUE, FALSE)
                 t2 == re_sub_span(t1, open \o <<"'">>, <<"'">>, TRUE, FALSE)
             IN  remove_attributes(t2, k + 1)

sanitize_html(text) ==
    IF text = <<>> THEN <<>>
    ELSE remove_attributes(re_sub_tags(remove_tags(text, 1), 1), 1)

\* --------------------------------------------------- utils/rate_limit.py
\* Mutant: the comparison with the limit is inclusive.
check_rate_limit_inclusive(s, t, guest_mode) ==
    LET s1 == IF ~Has(s, "rate_limit_start")
              THEN Put(Put(s, "rate_limit_start", t), "questions_used", 0)
              ELSE s
        s2 == IF t - s1["rate_limit_start"] > RATE_LIMIT_WINDOW_HOURS
              THEN Put(Put(s1, "rate_limit_start", t), "questions_used", 0)
              ELSE s1
        limit == IF ~guest_mode THEN AUTHENTICATED_RATE_LIMIT
                 ELSE ANONYMOUS_RATE_LIMIT
    IN  [ss |-> s2, ok |-> s2["questions_used"] <= limit, seen |-> s2["questions_used"]]

\* Mutant: a lapsed window gets a new start but keeps its count.
check_rate_limit_keep_count(s, t, guest_mode) ==
    LET s1 == IF ~Has(s, "rate_limit_start")
              THEN Put(Put(s, "rate_limit_start", t), "questions_used", 0)
              ELSE s
        s2 == IF t - s1["rate_limit_start"] > RATE_LIMIT_WINDOW_HOURS
              THEN Put(s1, "rate_limit_start", t)
              ELSE s1
        limit == IF ~guest_mode THEN AUTHENTICATED_RATE_LIMIT
                 ELSE ANONYMOUS_RATE_LIMIT
    IN  [ss |-> s2, ok |-> s2["questions_used"] < limit, seen |-> s2["questions_used"]]

\* check_rate_limit: the state it leaves, its result, and the count the
\* comparison was evaluated against.
check_rate_limit(s, t, guest_mode) ==
    LET s1 == IF ~Has(s, "rate_limit_start")
              THEN Put(Put(s, "rate_limit_start", t), "questions_used", 0)
              ELSE s
        s2 == IF t - s1["rate_limit_start"] > RATE_LIMIT_WINDOW_HOURS
              THEN Put(Put(s1, "rate_limit_start", t), "questions_used", 0)
              ELSE s1
        limit == IF ~guest_mode THEN AUTHENTICATED_RATE_LIMIT
                 ELSE ANONYMOUS_RATE_LIMIT
    IN  [ss |-> s2, ok |-> s2["questions_used"] < limit, seen |-> s2["questions_used"]]

increment_rate_limit(s, t) ==
    LET c == check_rate_limit(s, t, Get(s, "guest_mode", TRUE))
    IN  IF ~c.ok THEN [ss |-> c.ss, raised |-> "RateLimitError", seen |-> c.seen]
        ELSE [ss |-> Put(c.ss, "questions_used", c.ss["questions_used"] + 1),
              raised |-> "none", seen |-> c.seen]

\* Mutant: the window duration is not added.
get_rate_limit_reset_time_no_window(s) ==
    IF Has(s, "rate_limit_start") THEN Some(s["rate_limit_start"]) ELSE None

get_rate_limit_reset_time(s) ==
    IF Has(s, "rate_limit_start")
    THEN Some(s["rate_limit_start"] + RATE_LIMIT_WINDOW_HOURS)
    ELSE None

\* format_rate_limit_message: the numbers the message is formatted from;
\* hours is the floor of the time to reset (negative once the window lapsed).
format_rate_limit_message(s, t) ==
    LET questions_used == Get(s, "questions_used", 0)
        guest_mode == Get(s, "guest_mode", TRUE)
        limit == IF ~guest_mode THEN AUTHENTICATED_RATE_LIMIT ELSE ANONYMOUS_RATE_LIMIT
        remaining == limit - questions_used
        reset_time == get_rate_limit_reset_time(s)
    IN  IF reset_time # None
        THEN [remaining |-> remaining, hours |-> Some(reset_time[1] - t)]
        ELSE [remaining |-> remaining, hours |-> None]

\* --------------------------------------------------- services/cognito.py
\* An access token is opaque to the front-end; the Identity Service issues
\* it for a user with an expiry time.
AccessTokenOf(u, t) == [sub |-> u, exp |-> t + TokenLifetime]

\* Mutant: a ClientError is swallowed and a result is returned all the same.
CognitoService_authenticate_no_raise(username, outcome, t) ==
    [raised |-> "none", calls |-> 1,
     value |-> [AccessToken |-> AccessTokenOf(username, t),
                RefreshToken |-> [refresh_of |-> username],
                ExpiresIn |-> TokenLifetime,
                Username |-> username]]

\* CognitoService.authenticate: the dictionary returned, or the AuthError
\* raised, and the number of initiate_auth calls made (one, there is no loop).
CognitoService_authenticate(username, outcome, t) ==
    IF outcome = "ok"
    THEN [raised |-> "none", calls |-> 1,
          value |-> [AccessToken |-> AccessTokenOf(username, t),
                     RefreshToken |-> [refresh_of |-> username],
                     ExpiresIn |-> TokenLifetime,
                     Username |-> username]]
    ELSE [raised |-> "AuthError", calls |-> 1, value |-> EmptyDict]

\* CognitoService.refresh_token: the dictionary has no Username key.
CognitoService_refresh_token(refresh_token, answer, t) ==
    IF answer = "ok"
    THEN [raised |-> "none",
          value |-> [AccessToken |-> AccessTokenOf(refresh_token.refresh_of, t),
                     ExpiresIn |-> TokenLifetime]]
    ELSE [raised |-> "AuthError", value |-> EmptyDict]

\* ------------------------------------------- components/authentication.py
is_authenticated(s) == Has(s, "user_token")

get_username(s) == IF is_authenticated(s) THEN Get(s, "username", None) ELSE None

\* Mutant: logging out also starts the session and its quota afresh.
logout_fresh_session(s) ==
    Put(Put(Del(Del(s, "user_token"), "username"), "messages", <<>>), "questions_used", 0)

\* Mutant: only the access token is deleted.
logout_token_only(s) == Del(s, "user_token")

\* logout: deletes both keys, then st.experimental_rerun().
logout(s) == Del(Del(s, "user_token"), "username")

\* Mutant: a successful login starts from an empty message list.
_handle_successful_auth_clear_messages(s, auth_result) ==
    LET s1 == Put(Put(s, "user_token", auth_result["AccessToken"]), "messages", <<>>)
    IN  IF Has(auth_result, "Username")
        THEN [ss |-> Put(s1, "username", auth_result["Username"]), raised |-> "none"]
        ELSE [ss |-> s1, raised |-> "KeyError"]

\* Mutant: only the access token is stored.
_handle_successful_auth_token_only(s, auth_result) ==
    [ss |-> Put(s, "user_token", auth_result["AccessToken"]), raised |-> "none"]

\* _handle_successful_auth: the two assignments in order; auth_result["Username"]
\* raises KeyError after user_token has been written when the key is missing.
\* Without an exception it ends in st.experimental_rerun().
_handle_successful_auth(s, auth_result) ==
    LET s1 == Put(s, "user_token", auth_result["AccessToken"])
    IN  IF Has(auth_result, "Username")
        THEN [ss |-> Put(s1, "username", auth_result["Username"]), raised |-> "none"]
        ELSE [ss |-> s1, raised |-> "KeyError"]

\* AuthenticationManager.refresh_token: state left, whether the Identity
\* Service was asked, whether a rerun was requested, and the value returned
\* ("none" when the call ends in the rerun instead of returning).
AuthenticationManager_refresh_token(s, answer, t) ==
    IF Has(s, "refresh_token")
    THEN LET r == CognitoService_refresh_token(s["refresh_token"], answer, t)
             h == _handle_successful_auth(s, r.value)
         IN  IF r.raised # "none"
             THEN [ss |-> logout(s), asked |-> TRUE, rerun |-> TRUE, ret |-> "none"]
             ELSE IF h.raised # "none"
             THEN [ss |-> logout(h.ss), asked |-> TRUE, rerun |-> TRUE, ret |-> "none"]
             ELSE [ss |-> h.ss, asked |-> TRUE, rerun |-> TRUE, ret |-> "none"]
    ELSE [ss |-> s, asked |-> FALSE, rerun |-> FALSE, ret |-> "False"]

\* ------------------------------------------------- services/api_client.py
_get_headers(s) ==
    [X_Session_ID |-> Get(s, "session_id", ""),
     Authorization |-> IF Has(s, "user_token") THEN Some(s["user_token"]) ELSE None]

\* The request send_message posts: payload and headers.
ChatRequest(s, message, session_id, guest_mode) ==
    [message |-> message, session_id |-> session_id, guest_mode |-> guest_mode,
     headers |-> _get_headers(s)]

\* Mutant: the 429 test is missing, raise_for_status turns 429 into APIError.
send_message_no_429_test(status) ==
    CASE status = "200" -> [raised |-> "none", value |-> Reply, calls |-> 1]
      [] OTHER -> [raised |-> "APIError", value |-> <<>>, calls |-> 1]

\* Mutant: a failed request is posted a second time before the error is raised.
send_message_retry(status) ==
    CASE status = "200" -> [raised |-> "none", value |-> Reply, calls |-> 1]
      [] status = "429" -> [raised |-> "RateLimitError", value |-> <<>>, calls |-> 2]
      [] OTHER -> [raised |-> "APIError", value |-> <<>>, calls |-> 2]

\* Mutant: the timeout of requests.post is not turned into APIError.
send_message_raw_timeout(status) ==
    CASE status = "200" -> [raised |-> "none", value |-> Reply, calls |-> 1]
      [] status = "429" -> [raised |-> "RateLimitError", value |-> <<>>, calls |-> 1]
      [] status = "timeout" -> [raised |-> "Timeout", value |-> <<>>, calls |-> 1]
      [] OTHER -> [raised |-> "APIError", value |-> <<>>, calls |-> 1]

\* send_message after the answer: 429 raises RateLimitError; every other
\* failure (raise_for_status, timeout) is a RequestException turned into APIError.
\* calls counts the requests.post calls: there is one, outside any loop
\* (self.max_retries is assigned in __init__ and read nowhere).
send_message(status) ==
    CASE status = "200" -> [raised |-> "none", value |-> Reply, calls |-> 1]
      [] status = "429" -> [raised |-> "RateLimitError", value |-> <<>>, calls |-> 1]
      [] OTHER -> [raised |-> "APIError", value |-> <<>>, calls |-> 1]

\* APIClient.get_chat_history: without a token nothing is requested and the
\* empty list is returned; otherwise one GET, whose failure raises APIError.
\* (The sidebar calls utils/session.py get_chat_history, not this method.)
APIClient_get_chat_history(s, status) ==
    IF ~Has(s, "user_token")
    THEN [raised |-> "none", value |-> <<>>, calls |-> 0]
    ELSE IF status = "200"
         THEN [raised |-> "none", calls |-> 1,
               value |-> <<[session_id |-> 0, messages |-> <<>>]>>]
         ELSE [raised |-> "APIError", value |-> <<>>, calls |-> 1]

\* -------------------------------------------- components/chat_interface.py
\* _get_remaining_questions hardcodes 50 and 10, the default settings.
ChatInterface_get_remaining_questions(s) ==
    LET used_questions == Get(s, "questions_used", 0)
        limit == IF ~Get(s, "guest_mode", TRUE) THEN AUTHENTICATED_RATE_LIMIT
                 ELSE ANONYMOUS_RATE_LIMIT
    IN  Max(0, limit - used_questions)

_update_question_count(s) ==
    LET s1 == IF ~Has(s, "questions_used") THEN Put(s, "questions_used", 0) ELSE s
    IN  Put(s1, "questions_used", s1["questions_used"] + 1)

\* _handle_user_input up to the call of requests.post: the user message is
\* appended, the request is built from the state at that moment.
HandleUserInputSend(s, prompt, guest_mode, id) ==
    LET s1 == IF ~Has(s, "messages") THEN Put(s, "messages", <<>>) ELSE s
        s2 == Put(s1, "messages",
                  Append(s1["messages"], [role |-> "user", content |-> prompt]))
        g  == get_session_id(s2, id)
    IN  [ss |-> g.ss, request |-> ChatRequest(g.ss, prompt, g.value, guest_mode)]

\* Mutant: the counter is updated whatever the outcome of the exchange.
HandleUserInputReceive_count_always(s, status) ==
    LET r == send_message(status)
    IN  IF r.raised = "none"
        THEN [ss |-> _update_question_count(
                        Put(s, "messages",
                            Append(s["messages"],
                                   [role |-> "assistant", content |-> r.value]))),
              rerun |-> TRUE, error |-> "none"]
        ELSE [ss |-> _update_question_count(s), rerun |-> FALSE, error |-> r.raised]

\* Mutant: a failed exchange takes the user message back.
HandleUserInputReceive_rollback(s, status) ==
    LET r == send_message(status)
    IN  IF r.raised = "none"
        THEN [ss |-> _update_question_count(
                        Put(s, "messages",
                            Append(s["messages"],
                                   [role |-> "assistant", content |-> r.value]))),
              rerun |-> TRUE, error |-> "none"]
        ELSE [ss |-> Put(s, "messages", SubSeq(s["messages"], 1, Len(s["messages"]) - 1)),
              rerun |-> FALSE, error |-> r.raised]

\* _handle_user_input from the answer on: on success the assistant message is
\* appended, the counter updated and a rerun requested; an exception is shown
\* with st.error and changes nothing.  The rerun request is a control-flow
\* exception of the framework that `except Exception` does not intercept.
HandleUserInputReceive(s, status) ==
    LET r == send_message(status)
    IN  IF r.raised = "none"
        THEN [ss |-> _update_question_count(
                        Put(s, "messages",
                            Append(s["messages"],
                                   [role |-> "assistant", content |-> r.value]))),
              rerun |-> TRUE, error |-> "none"]
        ELSE [ss |-> s, rerun |-> FALSE, error |-> r.raised]

\* _start_new_chat: get_session_id returns the id already stored.
_start_new_chat(s, id) ==
    LET s1 == Put(s, "messages", <<>>)
        g  == get_session_id(s1, id)
    IN  Put(g.ss, "session_id", g.value)

\* ------------------------------------------------------------ main.py
\* The parts every script run shares.  ScriptStart is the call of
\* initialize_session_state at the top of ChatApplication.run; a uuid is
\* drawn only when the state is not initialised yet.
NextUuid == uuid_count + 1
ScriptStart(s) == initialize_session_state(s, NextUuid, now)
UuidsAfterStart(s) == IF Has(s, "initialized") THEN uuid_count ELSE uuid_count + 1

\* Mutant: the history section is rendered for everybody.
SidebarHistory_always(s) == get_chat_history(s)

\* Sidebar.render: the history section is rendered for authenticated users.
SidebarHistory(s) == IF is_authenticated(s) THEN get_chat_history(s) ELSE s

\* Mutant: the chat interface is always rendered in guest mode.
GuestMode_always(s) == TRUE

\* ChatApplication.run passes guest_mode = not is_authenticated().
GuestMode(s) == ~is_authenticated(s)

\* -------------------------------------------------------- observations
WindowLapsed(s, t) ==
    Has(s, "rate_limit_start") /\ t - s["rate_limit_start"] > RATE_LIMIT_WINDOW_HOURS

TierOf(guest_mode) == IF guest_mode THEN "guest" ELSE "auth"
LimitOf(tier) == IF tier = "auth" THEN AUTHENTICATED_RATE_LIMIT ELSE ANONYMOUS_RATE_LIMIT
CountCap == Max(ANONYMOUS_RATE_LIMIT, AUTHENTICATED_RATE_LIMIT) + 1
AllowedCap == Min(ANONYMOUS_RATE_LIMIT, AUTHENTICATED_RATE_LIMIT) + 1

NoObs == [op |-> "none", used_before |-> 0, lapsed |-> FALSE, seen |-> 0, allowed |-> FALSE,
          reset_at |-> None, status |-> "none", raised |-> "none", ret |-> "none",
          answer |-> "none", asked |-> FALSE, authed |-> FALSE, stale |-> FALSE,
          appended |-> None, calls |-> 0, user |-> "none"]

\* What a run that reaches _render_chat_input observes: s is the state just
\* before check_rate_limit, c what check_rate_limit returned.
CheckObs(op, s, c) ==
    [NoObs EXCEPT !.op = op,
                  !.used_before = Get(s, "questions_used", 0),
                  !.lapsed = WindowLapsed(s, now),
                  !.seen = c.seen, !.allowed = c.ok,
                  !.reset_at = get_rate_limit_reset_time(c.ss),
                  !.authed = is_authenticated(s)]

\* The access token a request would carry expires within the refresh margin
\* (spec 4.1); the code keeps no expiry, the token carries it.
TokenStale(s, t) ==
    Has(s, "user_token") /\ s["user_token"].exp - t <= RefreshMargin

\* The window opens when check_rate_limit sets rate_limit_start.
FreshWin(t) ==
    [tier |-> "none", who |-> "none", allowed |-> 0, answered |-> 0, opened_at |-> t]
WinCheck(w, s, t) ==
    IF ~Has(s, "rate_limit_start") \/ WindowLapsed(s, t) THEN FreshWin(t) ELSE w
JoinTier(a, b) == IF a = "none" \/ a = b THEN b ELSE "mixed"
WinAllow(w, tier) ==
    [w EXCEPT !.tier = JoinTier(@, tier), !.allowed = Min(@ + 1, AllowedCap)]
WinAnswer(w) == [w EXCEPT !.answered = Min(@ + 1, CountCap)]

\* The kind of identity a run acts under: a logged-in user or the guest.
IdentityOf(s) == IF is_authenticated(s) THEN "user" ELSE "guest"
\* who: the one kind of identity whose submissions the window has admitted.
WinWho(w, identity) == [w EXCEPT !.who = JoinTier(@, identity)]

\* ---------------------------------------------------------------- Init
Init ==
    /\ session_state = EmptyDict
    /\ now = 0
    /\ inflight = <<>>
    /\ rerun = FALSE
    /\ uuid_count = 0
    /\ last = NoObs
    /\ win = FreshWin(0)

\* A new script run starts when no rerun is pending and fewer than k runs
\* are blocked in a request (k = 1: the runs of one session are serialised).
MayStart(k) == ~rerun /\ Len(inflight) < k

\* -------------------------------------------------------------- actions
\* The clock starts with the first script run; a requested rerun runs at once.
Tick ==
    /\ Has(session_state, "initialized")
    /\ ~rerun
    /\ now < MaxTime
    /\ now' = now + 1
    /\ UNCHANGED <<session_state, inflight, rerun, uuid_count, last, win>>

\* A script run without a widget event, and the run a rerun request starts.
Render(k) ==
    /\ Len(inflight) < k
    /\ LET s0 == ScriptStart(session_state)
           s1 == SidebarHistory(s0)
           c  == check_rate_limit(s1, now, GuestMode(s1))
       IN  /\ session_state' = c.ss
           /\ last' = CheckObs("render", s1, c)
           /\ win' = WinCheck(win, s1, now)
    /\ rerun' = FALSE
    /\ uuid_count' = UuidsAfterStart(session_state)
    /\ UNCHANGED <<now, inflight>>

\* render_login_ui: the login form is submitted with a username and a password.
Login(k, username, outcome) ==
    /\ MayStart(k)
    /\ LET s0 == ScriptStart(session_state)
           a  == CognitoService_authenticate(username, outcome, now)
       IN  /\ ~is_authenticated(s0)
           /\ IF a.raised = "none"
              THEN LET h == _handle_successful_auth(s0, a.value)
                   IN  /\ session_state' = h.ss
                       /\ rerun' = TRUE
                       /\ last' = [NoObs EXCEPT !.op = "login", !.status = outcome,
                                     !.calls = a.calls, !.user = username]
                       /\ win' = win
              ELSE LET c == check_rate_limit(s0, now, GuestMode(s0))
                   IN  /\ session_state' = c.ss
                       /\ rerun' = FALSE
                       /\ last' = [CheckObs("login_failed", s0, c) EXCEPT
                                     !.status = outcome, !.raised = a.raised,
                                     !.calls = a.calls]
                       /\ win' = WinCheck(win, s0, now)
    /\ uuid_count' = UuidsAfterStart(session_state)
    /\ UNCHANGED <<now, inflight>>

\* render_logout_ui: the Logout button is clicked.
Logout(k) ==
    /\ MayStart(k)
    /\ LET s0 == ScriptStart(session_state)
       IN  /\ is_authenticated(s0)
           /\ session_state' = logout(s0)
           /\ last' = [NoObs EXCEPT !.op = "logout", !.authed = TRUE]
    /\ rerun' = TRUE
    /\ uuid_count' = UuidsAfterStart(session_state)
    /\ UNCHANGED <<now, inflight, win>>

\* _render_header: the New Chat button is clicked.
NewChat(k) ==
    /\ MayStart(k)
    /\ LET s0 == ScriptStart(session_state)
           s1 == SidebarHistory(s0)
       IN  /\ session_state' = _start_new_chat(s1, NextUuid)
           /\ last' = [NoObs EXCEPT !.op = "new_chat",
                         !.authed = is_authenticated(s1)]
    /\ rerun' = TRUE
    /\ uuid_count' = UuidsAfterStart(session_state)
    /\ UNCHANGED <<now, inflight, win>>

\* _render_chat_input with a prompt: refused when check_rate_limit fails,
\* otherwise _handle_user_input runs up to the request.
Submit(k, prompt) ==
    /\ MayStart(k)
    /\ Len(Get(session_state, "messages", <<>>)) < MaxMsgs
    /\ LET s0 == ScriptStart(session_state)
           s1 == SidebarHistory(s0)
           guest_mode == GuestMode(s1)
           c  == check_rate_limit(s1, now, guest_mode)
           h  == HandleUserInputSend(c.ss, prompt, guest_mode, NextUuid)
       IN  /\ last' = [CheckObs("submit", s1, c) EXCEPT
                         !.stale = c.ok /\ TokenStale(h.ss, now),
                         !.appended = IF c.ok
                                      THEN Some([role |-> "user", content |-> prompt])
                                      ELSE None]
           /\ IF c.ok
              THEN /\ session_state' = h.ss
                   /\ inflight' = Append(inflight, h.request)
                   /\ win' = WinWho(WinAllow(WinCheck(win, s1, now), TierOf(guest_mode)),
                                    IdentityOf(s1))
              ELSE /\ session_state' = c.ss
                   /\ inflight' = inflight
                   /\ win' = WinCheck(win, s1, now)
    /\ uuid_count' = UuidsAfterStart(session_state)
    /\ UNCHANGED <<now, rerun>>

\* The Chat API answers (or the request times out) and _handle_user_input resumes.
Response(i, status) ==
    /\ i \in 1..Len(inflight)
    /\ LET r == HandleUserInputReceive(session_state, status)
       IN  /\ session_state' = r.ss
           /\ rerun' = (rerun \/ r.rerun)
           /\ last' = [NoObs EXCEPT !.op = "response",
                         !.used_before = Get(session_state, "questions_used", 0),
                         !.status = status, !.raised = r.error,
                         !.calls = send_message(status).calls,
                         !.appended = IF r.error = "none"
                                      THEN Some([role |-> "assistant",
                                                 content |-> send_message(status).value])
                                      ELSE None,
                         !.authed = (inflight[i].headers.Authorization # None)]
           /\ win' = IF r.error = "none" THEN WinAnswer(win) ELSE win
    /\ inflight' = RemoveAt(inflight, i)
    /\ UNCHANGED <<now, uuid_count>>

\* utils/session.py add_message_to_history called on the initialised state.
AddMessageToHistory(k, message) ==
    /\ MayStart(k)
    /\ Has(session_state, "initialized")
    /\ Len(Get(session_state, "messages", <<>>)) <= MaxMsgs
    /\ session_state' = add_message_to_history(session_state, message)
    /\ last' = [NoObs EXCEPT !.op = "add_message_to_history",
                  !.appended = Some(message)]
    /\ UNCHANGED <<now, inflight, rerun, uuid_count, win>>

\* utils/rate_limit.py increment_rate_limit called on the initialised state.
IncrementRateLimit(k) ==
    /\ MayStart(k)
    /\ Has(session_state, "initialized")
    /\ LET r == increment_rate_limit(session_state, now)
           tier == TierOf(Get(session_state, "guest_mode", TRUE))
           w == WinCheck(win, session_state, now)
       IN  /\ session_state' = r.ss
           /\ last' = [NoObs EXCEPT !.op = "increment_rate_limit",
                         !.used_before = Get(session_state, "questions_used", 0),
                         !.lapsed = WindowLapsed(session_state, now),
                         !.seen = r.seen,
                         !.allowed = (r.raised = "none"), !.raised = r.raised,
                         !.reset_at = get_rate_limit_reset_time(r.ss)]
           /\ win' = IF r.raised = "none"
                     THEN WinWho(WinAnswer(WinAllow(w, tier)), IdentityOf(session_state))
                     ELSE w
    /\ UNCHANGED <<now, inflight, rerun, uuid_count>>

\* AuthenticationManager.refresh_token called on the initialised state; answer
\* is what the Identity Service answers if it is asked.
RefreshToken(k, answer) ==
    /\ MayStart(k)
    /\ Has(session_state, "initialized")
    /\ LET r == AuthenticationManager_refresh_token(session_state, answer, now)
       IN  /\ session_state' = r.ss
           /\ rerun' = r.rerun
           /\ last' = [NoObs EXCEPT !.op = "refresh_token",
                         !.answer = answer, !.asked = r.asked, !.ret = r.ret,
                         !.authed = is_authenticated(session_state)]
    /\ UNCHANGED <<now, inflight, uuid_count, win>>

Next ==
    \/ Tick
    \/ Render(1)
    \/ \E u \in Users, o \in LoginOutcomes : Login(1, u, o)
    \/ Logout(1)
    \/ NewChat(1)
    \/ \E p \in Prompts : Submit(1, p)
    \/ \E i \in 1..1, st \in Statuses : Response(i, st)
    \/ \E m \in Messages : AddMessageToHistory(1, m)
    \/ IncrementRateLimit(1)
    \/ \E a \in RefreshAnswers : RefreshToken(1, a)

Spec == Init /\ [][Next]_vars

\* The same operations with up to MaxConc script runs overlapping on one
\* session state (spec 5: several tabs, a rapid double submit).
NextConc ==
    \/ Tick
    \/ Render(MaxConc)
    \/ \E u \in Users, o \in LoginOutcomes : Login(MaxConc, u, o)
    \/ Logout(MaxConc)
    \/ NewChat(MaxConc)
    \/ \E p \in Prompts : Submit(MaxConc, p)
    \/ \E i \in 1..MaxConc, st \in Statuses : Response(i, st)

SpecConc == Init /\ [][NextConc]_vars

\* utils/session.py reset_session called on the initialised state; no caller
\* exists in the repository, MaxResets bounds the ids it draws.
ResetSession(k) ==
    /\ MayStart(k)
    /\ Has(session_state, "initialized")
    /\ uuid_count <= MaxResets
    /\ session_state' = reset_session(session_state, NextUuid, now)
    /\ uuid_count' = uuid_count + 1
    /\ last' = [NoObs EXCEPT !.op = "reset_session",
                  !.used_before = Get(session_state, "questions_used", 0),
                  !.authed = is_authenticated(session_state)]
    /\ UNCHANGED <<now, inflight, rerun, win>>

\* The operations of Spec together with reset_session.
NextLifecycle == Next \/ ResetSession(1)

SpecLifecycle == Init /\ [][NextLifecycle]_vars

\* requests.post is called with timeout=self.timeout: a request in flight is
\* answered or times out, so the answer step cannot be postponed forever.
SpecLive == Spec /\ WF_vars(\E st \in Statuses : Response(1, st))

\* validate_message and sanitize_html applied to a text (utils/logger.py);
\* `last` holds the text and then what the function did with it.
InitValidate ==
    /\ session_state = EmptyDict
    /\ now = 0
    /\ inflight = <<>>
    /\ rerun = FALSE
    /\ uuid_count = 0
    /\ win = FreshWin(0)
    /\ \E text \in ValidateInputs :
          last = [op |-> "input", text |-> text, raised |-> "none", value |-> <<>>]

ValidateMessage ==
    /\ last.op = "input"
    /\ LET r == validate_message(last.text)
       IN  last' = [op |-> "validate_message", text |-> last.text,
                    raised |-> r.raised, value |-> r.value]
    /\ UNCHANGED <<session_state, now, inflight, rerun, uuid_count, win>>

SanitizeHtml ==
    /\ last.op = "input"
    /\ last' = [op |-> "sanitize_html", text |-> last.text,
                raised |-> "none", value |-> sanitize_html(last.text)]
    /\ UNCHANGED <<session_state, now, inflight, rerun, uuid_count, win>>

NextValidate == ValidateMessage \/ SanitizeHtml

SpecValidate == InitValidate /\ [][NextValidate]_vars

\* ================================================================ claims
\* The credential fields of a session state.
Credential(s) == [k \in {"user_token", "username"} \cap DOMAIN s |-> s[k]]
questions_used == Get(session_state, "questions_used", 0)
TierFixed == win.tier \in {"guest", "auth"}
CheckOps == {"render", "submit", "login_failed"}

C2_ConcurrentNeverExceeds ==
    TierFixed => questions_used <= LimitOf(win.tier)

C4_LapsedWindowIsReset ==
    [][(/\ now' = now
        /\ last'.op \in CheckOps \cup {"increment_rate_limit"}
        /\ WindowLapsed(session_state, now))
       => (/\ session_state'["rate_limit_start"] = now
           /\ last'.seen = 0
           /\ last'.allowed
           /\ session_state'["questions_used"]
                = (IF last'.op = "increment_rate_limit" THEN 1 ELSE 0))]_vars

\* C4 witness: a guest submit was allowed on a lapsed window whose count had
\* reached the limit.
C4_Witness ==
    /\ last.op = "submit"
    /\ last.lapsed
    /\ ~last.authed
    /\ last.used_before = ANONYMOUS_RATE_LIMIT
    /\ last.allowed
    /\ session_state["rate_limit_start"] = now

\* C5: in a window used at one fixed tier a run's rate-limit check passes
\* exactly while fewer than `limit` submissions have been answered, so the
\* submission after the limit-th answered one is refused; the reset time
\* read at a refusal is the time the window opened plus the window duration.
C5_LimitThenDenied ==
    (last.op \in CheckOps /\ win.tier \in {"none", TierOf(~last.authed)}) =>
        /\ last.allowed <=> (win.answered < LimitOf(TierOf(~last.authed)))
        /\ ~last.allowed =>
             last.reset_at = Some(win.opened_at + RATE_LIMIT_WINDOW_HOURS)

\* C5 witness: a guest submit is refused exactly at the end of the window in
\* which the limit of submissions was answered.
C5_Witness ==
    /\ last.op = "submit"
    /\ ~last.allowed
    /\ ~last.authed
    /\ win.tier = "guest"
    /\ win.answered = ANONYMOUS_RATE_LIMIT
    /\ now = win.opened_at + RATE_LIMIT_WINDOW_HOURS
    /\ last.reset_at = Some(now)

\* C6: every read of quota state first applies the lazy window reset: once
\* the window has lapsed, the remaining-questions accessors, is_rate_limited
\* and the rate-limit message give the value computed from a count of 0.
C6_ReadsApplyWindowReset ==
    WindowLapsed(session_state, now) =>
        LET reset == Put(session_state, "questions_used", 0)
        IN  /\ get_remaining_questions(session_state) = get_remaining_questions(reset)
            /\ ChatInterface_get_remaining_questions(session_state)
                 = ChatInterface_get_remaining_questions(reset)
            /\ is_rate_limited(session_state) = is_rate_limited(reset)
            /\ format_rate_limit_message(session_state, now).remaining
                 = format_rate_limit_message(reset, now).remaining

\* C7: after AuthenticationManager.refresh_token has failed (it did not
\* return True and no new token was stored), neither the access token nor
\* the username is in the session state.
C7_FailedRefreshLogsOut ==
    (last.op = "refresh_token" /\ last.ret = "False") =>
        /\ ~Has(session_state, "user_token")
        /\ ~Has(session_state, "username")

\* C8: a refresh by a logged-in user that the Identity Service answers
\* successfully leaves the user authenticated under the same username and
\* returns True; it never ends logged out.
C8_AnsweredRefreshKeepsLogin ==
    (last.op = "refresh_token" /\ last.authed /\ last.answer = "ok") =>
        /\ last.ret = "True"
        /\ Has(session_state, "user_token")
        /\ Has(session_state, "username")

\* C9: an authenticated submit whose access token expires within the
\* refresh margin is not forwarded to the Chat API with that token: the
\* token is refreshed first, or the submit fails.
C9_StaleTokenNotForwarded ==
    last.op = "submit" => ~last.stale

\* C10: after a 401 answer of the Chat API to a submit, the access token is
\* no longer in the session state.
C10_UnauthorizedClearsToken ==
    (last.op = "response" /\ last.status = "401") => ~Has(session_state, "user_token")

\* C11: a 429 answer of the Chat API surfaces from send_message as
\* RateLimitError and never as APIError, and no other answer (success, other
\* error status, timeout) produces RateLimitError.
C11_Only429IsRateLimitError ==
    /\ \A st \in Statuses :
          (send_message(st).raised = "RateLimitError") <=> (st = "429")
    /\ last.op = "response" =>
          ((last.raised = "RateLimitError") <=> (last.status = "429"))

\* C11 witness: a submit was answered 429 and the error shown is RateLimitError.
C11_Witness ==
    /\ last.op = "response"
    /\ last.status = "429"
    /\ last.raised = "RateLimitError"

\* C12: starting a new chat yields a session id different from the id that
\* was active before and from every id drawn earlier in the browser session.
C12_NewChatFreshId ==
    [][last'.op = "new_chat" =>
          /\ session_state'["session_id"] # Get(session_state, "session_id", 0)
          /\ session_state'["session_id"] \notin 1..uuid_count]_vars

\* C14: when a new session is created, the session that was active before is
\* archived: its id with its messages, unchanged, is an entry of chat_history.
C14_NewChatArchivesPrevious ==
    [][(last'.op = "new_chat" /\ Len(Get(session_state, "messages", <<>>)) > 0) =>
          \E i \in 1..Len(Get(session_state', "chat_history", <<>>)) :
              /\ session_state'["chat_history"][i].session_id
                   = session_state["session_id"]
              /\ session_state'["chat_history"][i].messages
                   = session_state["messages"]]_vars

\* C15: appending is append-only: every operation other than a new chat
\* leaves the active session's message list as it was or with exactly the
\* message it appended added at the end; no append drops, reorders, rewrites
\* or removes an earlier message.
C15_AppendOnly ==
    [][LET before == Get(session_state, "messages", <<>>)
           after  == Get(session_state', "messages", <<>>)
       IN  /\ now' # now => after = before
           /\ (now' = now /\ last'.op # "new_chat") =>
                 after = (IF last'.appended = None THEN before
                          ELSE Append(before, last'.appended[1]))]_vars

\* C15 witness: add_message_to_history has appended a second message that
\* differs from the first, which is still in front of it.
C15_Witness ==
    /\ last.op = "add_message_to_history"
    /\ Len(session_state["messages"]) = 2
    /\ session_state["messages"][1] = [role |-> "user", content |-> Hi]
    /\ session_state["messages"][2] = [role |-> "assistant", content |-> Reply]
    /\ last.appended = Some(session_state["messages"][2])

\* C16: logout is unconditional and idempotent: applied to any state
\* (authenticated, guest, or with only some of the credential fields) it
\* leaves neither access token nor username, and a second logout leaves the
\* state the first one left; the state after a click on Logout is such a state.
C16_LogoutIdempotent ==
    /\ \A K \in SUBSET {"user_token", "username"} :
          LET s0 == [x \in (DOMAIN session_state) \ K |-> session_state[x]]
              s1 == logout(s0)
          IN  /\ ~Has(s1, "user_token")
              /\ ~Has(s1, "username")
              /\ logout(s1) = s1
    /\ last.op = "logout" =>
          /\ ~Has(session_state, "user_token")
          /\ ~Has(session_state, "username")
          /\ logout(session_state) = session_state

\* C16 witness: a logged-in user has clicked Logout.
C16_Witness ==
    /\ last.op = "logout"
    /\ last.authed
    /\ rerun
    /\ ~Has(session_state, "user_token")
    /\ Len(session_state["messages"]) > 0

C19_LoginAllOrNothing ==
    [][now' = now =>
         /\ last'.op = "login_failed" =>
               /\ last'.status # "ok"
               /\ Credential(session_state') = Credential(session_state)
               /\ last'.calls = 1
         /\ last'.op = "login" =>
               /\ last'.status = "ok"
               /\ last'.calls = 1
               /\ Credential(session_state')
                    = [user_token |-> AccessTokenOf(last'.user, now),
                       username |-> last'.user]]_vars

\* C19 witness: a login was refused for a user who is still a guest with
\* quota already used.
C19_Witness ==
    /\ last.op = "login_failed"
    /\ last.status = "NotAuthorizedException"
    /\ last.raised = "AuthError"
    /\ last.calls = 1
    /\ Credential(session_state) = EmptyDict
    /\ questions_used > 0

\* C20: a state without an access token is guest mode: every chat request
\* sent while no access token is in the session state carries guest_mode =
\* true and no Authorization header, and every request sent while a token is
\* present carries guest_mode = false and that token as bearer.
C20_GuestModeIffNoToken ==
    [][Len(inflight') > Len(inflight) =>
         LET request == inflight'[Len(inflight')]
         IN  IF Has(session_state', "user_token")
             THEN /\ ~request.guest_mode
                  /\ request.headers.Authorization
                       = Some(session_state'["user_token"])
             ELSE /\ request.guest_mode
                  /\ request.headers.Authorization = None]_vars

\* C20 witness: a logged-in user's request is in flight with that user's
\* token as bearer, sent in a session that started as a guest session.
C20_Witness ==
    /\ last.op = "submit"
    /\ Len(inflight) = 1
    /\ ~inflight[1].guest_mode
    /\ inflight[1].headers.Authorization = Some(session_state["user_token"])
    /\ session_state["user_token"].sub = "bob"
    /\ Len(session_state["messages"]) = 1
    /\ questions_used > 0

\* C21: a credential change in the middle of a session does not invalidate
\* the session: a successful login leaves the active session id and its
\* message sequence unchanged.
C21_LoginKeepsSession ==
    [][(last'.op = "login" /\ Has(session_state, "initialized")) =>
          /\ session_state'["session_id"] = session_state["session_id"]
          /\ session_state'["messages"] = session_state["messages"]]_vars

\* C21 witness: a guest with an exchange in the session has just logged in.
C21_Witness ==
    /\ last.op = "login"
    /\ is_authenticated(session_state)
    /\ Len(session_state["messages"]) = 2
    /\ session_state["messages"][2].role = "assistant"
    /\ questions_used > 0

\* C22: quota windows are keyed by credential identity: when every
\* submission admitted in the current window was made by the guest, a
\* rate-limit check made for a logged-in user sees a count of 0, and the
\* other way round.
C22_QuotaKeyedByIdentity ==
    (/\ last.op \in CheckOps
     /\ win.who \notin {"none", "mixed"}
     /\ win.who # IdentityOf(session_state)) => last.seen = 0

\* C23: a submit whose text is empty, whitespace-only or longer than the
\* maximum length is rejected before any state change, so every user message
\* in the active session and every request to the Chat API carries a text
\* that passes validation, of at most the maximum length.
C23_InvalidSubmitRejected ==
    /\ \A i \in 1..Len(Get(session_state, "messages", <<>>)) :
          LET m == session_state["messages"][i]
          IN  /\ Len(m.content) <= MAX_MESSAGE_LENGTH
              /\ m.role = "user" => validate_message(m.content).raised = "none"
    /\ \A i \in 1..Len(inflight) :
          validate_message(inflight[i].message).raised = "none"

\* The texts of C24.
EscapedScriptHello ==
    <<"&", "l", "t", ";", "s", "c", "r", "i", "p", "t", "&", "g", "t", ";", "a", "l", "e",
      "r", "t", "(", "1", ")", "&", "l", "t", ";", "/", "s", "c", "r", "i", "p", "t", "&",
      "g", "t", ";", "h", "e", "l", "l", "o">>
Hello == <<"h", "e", "l", "l", "o">>
WhitespaceOnly(text) == text # <<>> /\ \A i \in 1..Len(text) : text[i] \in Whitespace

\* C24 (as stated): validation of a whitespace-only message fails with a
\* validation error, and validation of "<script>alert(1)</script>hello"
\* returns content that contains "hello" and no script tag, neither raw nor
\* as (escaped) text.
C24_ScriptTagStripped ==
    last.op = "validate_message" =>
        /\ WhitespaceOnly(last.text) => last.raised = "ValidationError"
        /\ last.text = ScriptHello =>
              /\ last.raised = "none"
              /\ Contains(last.value, Hello)
              /\ ~Contains(lower(last.value), <<"<", "s", "c", "r", "i", "p", "t">>)
              /\ ~Contains(lower(last.value), <<"&", "l", "t", ";", "s", "c", "r", "i", "p", "t">>)

\* C24 (amended): validation of a whitespace-only message fails with a
\* validation error; validate_message returns no text with a raw "<" or ">",
\* and for "<script>alert(1)</script>hello" it returns the text with the tag
\* escaped, "&lt;script&gt;alert(1)&lt;/script&gt;hello", which still contains
\* "hello"; sanitize_html is what strips the tag and returns "hello".
C24_ScriptTagEscaped ==
    /\ last.op = "validate_message" =>
          /\ WhitespaceOnly(last.text) => last.raised = "ValidationError"
          /\ last.raised = "none" =>
                \A i \in 1..Len(last.value) : last.value[i] \notin {"<", ">"}
          /\ last.text = ScriptHello =>
                /\ last.raised = "none"
                /\ last.value = EscapedScriptHello
                /\ Contains(last.value, Hello)
    /\ (last.op = "sanitize_html" /\ last.text = ScriptHello) => last.value = Hello

\* C24 witness: validate_message has returned the script text escaped.
C24_Witness ==
    /\ last.op = "validate_message"
    /\ last.text = ScriptHello
    /\ last.raised = "none"
    /\ Contains(last.value, <<"&", "l", "t", ";", "s", "c", "r", "i", "p", "t", "&", "g", "t", ";">>)
    /\ Contains(last.value, Hello)

C26_SubmitCompletes ==
    /\ (Len(inflight) > 0) ~>
          (/\ Len(inflight) = 0
           /\ last.op = "response"
           /\ IF last.raised = "none"
              THEN /\ last.appended = Some([role |-> "assistant", content |-> Reply])
                   /\ session_state["messages"][Len(session_state["messages"])]
                         = [role |-> "assistant", content |-> Reply]
              ELSE last.raised \in {"APIError", "RateLimitError"})
    /\ []((last.op = "response" /\ last.status = "timeout") =>
             (last.raised = "APIError" /\ Len(inflight) = 0))

\* A submit that was pending over a clock tick and then timed out.
C26_Witness ==
    /\ last.op = "response"
    /\ last.status = "timeout"
    /\ last.raised = "APIError"
    /\ Len(inflight) = 0
    /\ now > 0
    /\ session_state["messages"] = <<[role |-> "user", content |-> Hi]>>

\* C27: the History Store is consulted for authenticated users only.  While
\* no access token is in session state, APIClient.get_chat_history returns
\* the empty list without a request whatever the service would answer, and a
\* script run does not render the history list: the chat_history entry that
\* rendering creates appears only in a run of an authenticated user.
C27_HistoryAuthenticatedOnly ==
    /\ [](~is_authenticated(session_state) =>
            \A st \in Statuses :
               APIClient_get_chat_history(session_state, st)
                  = [raised |-> "none", value |-> <<>>, calls |-> 0])
    /\ [][(Has(session_state', "chat_history") /\ ~Has(session_state, "chat_history")) =>
            (is_authenticated(session_state) /\ is_authenticated(session_state'))]_vars
    /\ [][(~is_authenticated(session_state) /\ ~is_authenticated(session_state')) =>
            (Has(session_state', "chat_history") <=> Has(session_state, "chat_history"))]_vars

\* A guest whose question was answered and whose page was rendered again:
\* no history list was created.
C27_Witness ==
    /\ last.op = "render"
    /\ ~last.authed
    /\ ~is_authenticated(session_state)
    /\ questions_used > 0
    /\ ~Has(session_state, "chat_history")

\* C28: while the session is rate limited for its tier (a window is open,
\* it has not lapsed, and questions_used has reached the limit of the tier),
\* a submit is refused before anything else happens: the messages, the
\* requests in flight and questions_used are unchanged; and
\* increment_rate_limit raises RateLimitError and leaves questions_used.
C28_RateLimitedSubmitRefused ==
    [][LET limited == /\ Has(session_state, "rate_limit_start")
                      /\ ~WindowLapsed(session_state, now)
                      /\ questions_used >=
                            LimitOf(TierOf(GuestMode(session_state)))
       IN  /\ (limited /\ now' = now /\ last'.op = "submit") =>
                 /\ ~last'.allowed
                 /\ session_state'["messages"] = session_state["messages"]
                 /\ inflight' = inflight
                 /\ session_state'["questions_used"] = session_state["questions_used"]
                 /\ rerun' = rerun
           /\ (limited /\ now' = now /\ last'.op = "increment_rate_limit") =>
                 /\ last'.raised = "RateLimitError"
                 /\ session_state'["questions_used"] = session_state["questions_used"]
      ]_vars

\* A submit refused at the limit of the tier, inside the window.
C28_Witness ==
    /\ last.op = "submit"
    /\ ~last.allowed
    /\ ~last.lapsed
    /\ last.used_before >= LimitOf(TierOf(GuestMode(session_state)))
    /\ session_state["messages"] = <<>>
    /\ inflight = <<>>

\* C29: in every reachable state questions_used is at most the limit of the
\* tier currently in effect: the guest limit when no access token is
\* present, the authenticated limit otherwise.
C29_CountWithinCurrentTier ==
    questions_used <= LimitOf(TierOf(GuestMode(session_state)))

\* C30: the remaining-quota value shown in the header agrees with
\* enforcement: whenever a script run may start on the initialised session,
\* _get_remaining_questions is 0 exactly when check_rate_limit would refuse
\* the next submit, for guests and for authenticated users.
C30_DisplayAgreesWithEnforcement ==
    (Has(session_state, "initialized") /\ MayStart(1)) =>
       ((ChatInterface_get_remaining_questions(session_state) = 0)
          <=> ~check_rate_limit(session_state, now, GuestMode(session_state)).ok)

\* C31: the reset time reported by get_rate_limit_reset_time is a time from
\* which submissions are accepted again: a submit attempted at any time at or
\* after rate_limit_start plus the window duration, the instant itself
\* included, is allowed.
C31_AllowedFromResetTime ==
    [][(/\ now' = now
        /\ last'.op = "submit"
        /\ get_rate_limit_reset_time(session_state) # None
        /\ now >= get_rate_limit_reset_time(session_state)[1])
       => last'.allowed]_vars

\* C32: no session-lifecycle operation restores quota inside a window:
\* starting a new chat and reset_session leave questions_used and the window
\* start as they were.
C32_LifecycleKeepsQuota ==
    [][(now' = now /\ last'.op \in {"new_chat", "reset_session"}) =>
          /\ Get(session_state', "questions_used", 0) = Get(session_state, "questions_used", 0)
          /\ Get(session_state', "rate_limit_start", None)
                = Get(session_state, "rate_limit_start", None)]_vars

\* C33: session initialization is idempotent across reruns: once the state
\* is initialised, the call of initialize_session_state that opens every
\* script run leaves session id, messages, questions_used and guest_mode
\* (and everything else) as they are, and draws no new id.
C33_InitializeIdempotent ==
    Has(session_state, "initialized") =>
       /\ \A k \in {"session_id", "messages", "questions_used", "guest_mode"} :
             /\ Has(session_state, k)
             /\ ScriptStart(session_state)[k] = session_state[k]
       /\ ScriptStart(session_state) = session_state
       /\ UuidsAfterStart(session_state) = uuid_count

\* A page rerun after an answered question: the session holds two messages
\* and a count above 0 when initialize_session_state is called again.
C33_Witness ==
    /\ last.op = "render"
    /\ Len(session_state["messages"]) = 2
    /\ questions_used > 0
    /\ now > 0
    /\ ScriptStart(session_state) = session_state

\* C34: a submit changes the message sequence in exactly one of two ways.
\* An admitted submit appends the user message; when the Chat API answers,
\* the assistant reply is appended right after it; when the call fails,
\* nothing more is appended and the user message stays last, without a
\* reply.  A refused submit appends nothing, and what is appended has role
\* user or assistant.
C34_SubmitAppendsUserThenReply ==
    [][LET before == Get(session_state, "messages", <<>>)
           after  == session_state'["messages"]
       IN  /\ (now' = now /\ last'.op = "submit") =>
                 IF last'.allowed
                 THEN /\ Len(after) = Len(before) + 1
                      /\ SubSeq(after, 1, Len(before)) = before
                      /\ after[Len(after)].role = "user"
                      /\ after[Len(after)].content = inflight'[Len(inflight')].message
                 ELSE after = before
           /\ (now' = now /\ last'.op = "response") =>
                 /\ before # <<>>
                 /\ before[Len(before)].role = "user"
                 /\ IF last'.status = "200"
                    THEN after = Append(before, [role |-> "assistant", content |-> Reply])
                    ELSE after = before
      ]_vars

\* A failed exchange: the user message is the last one and has no reply.
C34_Witness ==
    /\ last.op = "response"
    /\ last.status = "500"
    /\ last.raised = "APIError"
    /\ session_state["messages"] = <<[role |-> "user", content |-> Hi]>>

\* C35: logout changes only the credential.  In every state in which the
\* Logout button can be clicked, the state the logout run leaves has the
\* same session id, message sequence, questions_used and window start, and
\* differs from the state before in user_token and username only.
C35_LogoutChangesCredentialOnly ==
    (is_authenticated(session_state) /\ MayStart(1)) =>
       LET after == logout(ScriptStart(session_state))
       IN  /\ \A k \in {"session_id", "messages", "questions_used", "rate_limit_start"} :
                 Get(after, k, None) = Get(session_state, k, None)
           /\ DOMAIN after = DOMAIN session_state \ {"user_token", "username"}
           /\ \A k \in DOMAIN after : after[k] = session_state[k]
           /\ Credential(after) = EmptyDict

\* After a logout: the answered exchange, the count and the window of the
\* logged-in phase are still there.
C35_Witness ==
    /\ last.op = "logout"
    /\ ~is_authenticated(session_state)
    /\ Len(session_state["messages"]) = 2
    /\ questions_used > 0
    /\ Has(session_state, "rate_limit_start")
    /\ win.who = "user"

\* C36: every chat request carries the id of the active session: the
\* session_id of the payload and the X-Session-ID header are equal and are
\* the session_id of the session state the request was sent from, also
\* after a new chat; and get_session_id on an initialised state returns the
\* stored id and changes nothing.
C36_RequestCarriesActiveSessionId ==
    /\ \A i \in 1..Len(inflight) :
          /\ Has(session_state, "session_id")
          /\ inflight[i].session_id = session_state["session_id"]
          /\ inflight[i].headers.X_Session_ID = session_state["session_id"]
    /\ Has(session_state, "initialized") =>
          /\ Has(session_state, "session_id")
          /\ get_session_id(session_state, NextUuid)
                = [ss |-> session_state, value |-> session_state["session_id"]]

\* A request in flight for the first message of a chat, in a window in which
\* a question was counted before.
C36_Witness ==
    /\ last.op = "submit"
    /\ last.allowed
    /\ Len(inflight) = 1
    /\ inflight[1].session_id = session_state["session_id"]
    /\ inflight[1].headers.X_Session_ID = session_state["session_id"]
    /\ session_state["messages"] = <<[role |-> "user", content |-> Hi]>>
    /\ win.answered > 0
    /\ questions_used > 0

====
